---- MODULE Spec2Model ----
(***************************************************************************)
(* Model of ipaddress_tools/tools.py: the _BaseIPSet address-space object  *)
(* (IPv4Set / IPv6Set), the ip_set dispatcher and the helpers overlap and  *)
(* net_size_iterator.                                                      *)
(*                                                                         *)
(* Addresses are scaled down: an IPv4 address has IPV4LENGTH bits and an   *)
(* IPv6 address IPV6LENGTH bits.  A network is a record                    *)
(*   [version, addr, prefixlen]                                            *)
(* standing for ipaddress.IPv4Network / IPv6Network.  Text parsing is not  *)
(* modelled: every input is an already typed network.                      *)
(***************************************************************************)
EXTENDS Integers, Sequences, FiniteSets, TLC

\* ------------------------------------------------------------------ bounds
IPV4LENGTH == 1
IPV6LENGTH == 2
MaxInit == 2
MaxLen == 1
MaxUsed == 2
MaxAddr == 3
MaxIntervals == 2

\* ------------------------------------------------------- networks (stdlib)
RECURSIVE Pow2(_)
Pow2(n) == IF n <= 0 THEN 1 ELSE 2 * Pow2(n - 1)

Versions == {4, 6}

MaxPrefixLen(v) == IF v = 4 THEN IPV4LENGTH ELSE IPV6LENGTH

Net(v, a, p) == [version |-> v, addr |-> a, prefixlen |-> p]

\* every well-formed network (no host bits set) of both families
Networks ==
    { n \in [version : Versions, addr : 0..(Pow2(IPV6LENGTH) - 1), prefixlen : 0..IPV6LENGTH] :
        /\ n.prefixlen <= MaxPrefixLen(n.version)
        /\ n.addr < Pow2(MaxPrefixLen(n.version))
        /\ n.addr % Pow2(MaxPrefixLen(n.version) - n.prefixlen) = 0 }

NoNetwork == Net(0, 0, 0)

\* int(n[0]) and int(n[-1])
First(n) == n.addr
Last(n) == n.addr + Pow2(MaxPrefixLen(n.version) - n.prefixlen) - 1
Interval(n) == <<First(n), Last(n)>>

\* ipaddress.IPv4Network((a, p)) / IPv6Network((a, p)) with strict=True:
\* "reject" is AddressValueError / NetmaskValueError, "hostbits" the plain
\* ValueError raised for host bits set.
VersionedNetwork(v, a, p) ==
    IF a < 0 \/ a >= Pow2(MaxPrefixLen(v)) THEN [st |-> "reject", net |-> NoNetwork]
    ELSE IF p < 0 \/ p > MaxPrefixLen(v) THEN [st |-> "reject", net |-> NoNetwork]
    ELSE IF a % Pow2(MaxPrefixLen(v) - p) # 0 THEN [st |-> "hostbits", net |-> NoNetwork]
    ELSE [st |-> "ok", net |-> Net(v, a, p)]

\* ipaddress.ip_network((a, p)): tries IPv4Network first, then IPv6Network;
\* only the two "reject" exceptions are caught, a host-bits ValueError of
\* the IPv4 attempt propagates.
ip_network(a, p) ==
    LET r4 == VersionedNetwork(4, a, p)
        r6 == VersionedNetwork(6, a, p)
    IN  IF r4.st = "ok" THEN [err |-> "none", net |-> r4.net]
        ELSE IF r4.st = "hostbits" THEN [err |-> "ValueError", net |-> NoNetwork]
        ELSE IF r6.st = "ok" THEN [err |-> "none", net |-> r6.net]
        ELSE [err |-> "ValueError", net |-> NoNetwork]

\* ------------------------------------------------------------ pure helpers
Range(s) == { s[i] : i \in 1..Len(s) }

BoundedSeq(S, n) == UNION { [1..k -> S] : k \in 0..n }

\* overlap(a, b): the first interval x of b the four-way test accepts, or
\* False.  [hit |-> FALSE] is Python's False; a returned tuple is truthy.
RECURSIVE overlap_from(_, _, _)
overlap_from(a, b, i) ==
    IF i > Len(b) THEN [hit |-> FALSE, x |-> <<0, 0>>]
    ELSE LET x == b[i]
         IN  IF \/ (x[1] <= a[1] /\ a[1] <= x[2])
                \/ (x[1] <= a[2] /\ a[2] <= x[2])
                \/ (a[1] <= x[1] /\ x[1] <= a[2])
                \/ (a[1] <= x[2] /\ x[2] <= a[2])
             THEN [hit |-> TRUE, x |-> x]
             ELSE overlap_from(a, b, i + 1)

\* an overlap test that forgot the lower bound: x overlaps a as soon as x
\* starts no later than a ends
overlap_no_lower_bound(a, b) ==
    IF \E i \in 1..Len(b) : b[i][1] <= a[2]
    THEN [hit |-> TRUE, x |-> b[CHOOSE i \in 1..Len(b) : b[i][1] <= a[2]]]
    ELSE [hit |-> FALSE, x |-> <<0, 0>>]

\* an overlap test that only asks whether an end of a lies inside x, and so
\* misses an x lying inside a
overlap_ends_only(a, b) ==
    LET In(i) == \/ (b[i][1] <= a[1] /\ a[1] <= b[i][2])
                 \/ (b[i][1] <= a[2] /\ a[2] <= b[i][2])
    IN  IF \E i \in 1..Len(b) : In(i)
        THEN [hit |-> TRUE, x |-> b[CHOOSE i \in 1..Len(b) : In(i)]]
        ELSE [hit |-> FALSE, x |-> <<0, 0>>]

\* an overlap test written with strict comparisons, which misses intervals
\* that only share an end
overlap_strict(a, b) ==
    LET In(i) == \/ (b[i][1] < a[1] /\ a[1] < b[i][2])
                 \/ (b[i][1] < a[2] /\ a[2] < b[i][2])
                 \/ (a[1] < b[i][1] /\ b[i][1] < a[2])
                 \/ (a[1] < b[i][2] /\ b[i][2] < a[2])
    IN  IF \E i \in 1..Len(b) : In(i)
        THEN [hit |-> TRUE, x |-> b[CHOOSE i \in 1..Len(b) : In(i)]]
        ELSE [hit |-> FALSE, x |-> <<0, 0>>]

overlap(a, b) == overlap_from(a, b, 1)

\* range(lo, hi, step) for step > 0, as a sequence
PyRange(lo, hi, step) ==
    IF hi <= lo THEN <<>>
    ELSE [k \in 1..(((hi - lo - 1) \div step) + 1) |-> lo + (k - 1) * step]

\* a net_size_iterator whose range ends one block after the last address
net_size_iterator_past_end(start, cidr) ==
    IF MaxPrefixLen(start.version) - cidr < 0
    THEN [err |-> "TypeError", items |-> <<>>]
    ELSE LET cidr_size == Pow2(MaxPrefixLen(start.version) - cidr)
             r == PyRange(First(start), Last(start) + cidr_size, cidr_size)
         IN  [err |-> "none",
              items |-> [k \in 1..Len(r) |-> <<r[k], r[k] + cidr_size - 1>>]]

\* net_size_iterator(start, cidr): 2 ** (negative) is a float, and range()
\* with a float step raises TypeError.
net_size_iterator(start, cidr) ==
    IF MaxPrefixLen(start.version) - cidr < 0
    THEN [err |-> "TypeError", items |-> <<>>]
    ELSE LET cidr_size == Pow2(MaxPrefixLen(start.version) - cidr)
             r == PyRange(First(start), Last(start), cidr_size)
         IN  [err |-> "none",
              items |-> [k \in 1..Len(r) |-> <<r[k], r[k] + cidr_size - 1>>]]

\* a version check that accepts every network
_version_unchecked(cls, network) == network.version \in Versions

\* _version_compatible(self, network)
_version_compatible(cls, network) == cls = network.version

\* _normalize_network(self, network) for a typed network.  The error message
\* formats self, and __repr__ reads self.supernet: when the supernet itself is
\* being normalized that attribute does not exist yet (AttributeError).
_normalize_network(cls, hasSupernet, network) ==
    IF _version_compatible(cls, network) THEN "none"
    ELSE IF hasSupernet THEN "VersionMismatch"
    ELSE "AttributeError"

\* [self._normalize_network(n) for n in used_networks]: first error wins
RECURSIVE normalize_all(_, _, _)
normalize_all(cls, nets, i) ==
    IF i > Len(nets) THEN "none"
    ELSE IF _normalize_network(cls, TRUE, nets[i]) # "none"
         THEN _normalize_network(cls, TRUE, nets[i])
         ELSE normalize_all(cls, nets, i + 1)

\* _init_used_networks(self, input_networks): a set comprehension
_init_used_networks(cls, input_networks) ==
    LET e == normalize_all(cls, input_networks, 1)
    IN  IF e # "none" THEN [err |-> e, set |-> {}]
        ELSE [err |-> "none", set |-> Range(input_networks)]

\* the dict comprehension of _update_networks over a list: keys in first
\* insertion order, a repeated key keeps its position and takes the last value
RECURSIVE dict_from(_, _, _)
dict_from(nets, i, acc) ==
    IF i > Len(nets) THEN acc
    ELSE LET k == Interval(nets[i])
             pos == { j \in 1..Len(acc) : acc[j].key = k }
         IN  IF pos = {}
             THEN dict_from(nets, i + 1, Append(acc, [key |-> k, value |-> nets[i]]))
             ELSE dict_from(nets, i + 1,
                     [j \in 1..Len(acc) |->
                         IF j \in pos THEN [key |-> k, value |-> nets[i]] ELSE acc[j]])

\* an index rebuilt from scratch for every network, which keeps the last only
_update_networks_last_only(nets) ==
    IF nets = <<>> THEN <<>>
    ELSE <<[key |-> Interval(nets[Len(nets)]), value |-> nets[Len(nets)]]>>

_update_networks(nets) == dict_from(nets, 1, <<>>)

\* self._used_network_map.keys()
Keys(m) == [j \in 1..Len(m) |-> m[j].key]

\* get_free_networks(self, prefixlen), drained: the blocks yielded and the
\* exception, if any, that ended the generator
RECURSIVE free_from(_, _, _, _, _)
free_from(cands, keys, prefixlen, i, out) ==
    IF i > Len(cands) THEN [err |-> "none", out |-> out]
    ELSE IF overlap(cands[i], keys).hit
         THEN free_from(cands, keys, prefixlen, i + 1, out)
         ELSE LET r == ip_network(cands[i][1], prefixlen)
              IN  IF r.err # "none" THEN [err |-> r.err, out |-> out]
                  ELSE free_from(cands, keys, prefixlen, i + 1, Append(out, r.net))

free_networks_of(sn, map, prefixlen) ==
    LET it == net_size_iterator(sn, prefixlen)
    IN  IF it.err # "none" THEN [err |-> it.err, out |-> <<>>]
        ELSE free_from(it.items, Keys(map), prefixlen, 1, <<>>)

\* ------------------------------------------------------------------- state
\* cls: class of the instance (4, 6, or 0 before construction);
\* supernet: self.supernet; _used_networks: self._used_networks, a list or a
\* set; _used_network_map: self._used_network_map in insertion order;
\* result: outcome of the last call of the sequential caller.
\* lock: owner of self.lock (0: free); pc, frame: position and locals of each
\* thread; access: the last access to the collection or the index, with the
\* owner of the lock at that moment.
\* call: a call of one of the module's functions on its own, with its
\* arguments and, once made, its value.
VARIABLES cls, supernet, _used_networks, _used_network_map, result,
          lock, pc, frame, access, call

vars == <<cls, supernet, _used_networks, _used_network_map, result,
          lock, pc, frame, access, call>>

convars == <<lock, pc, frame, access, call>>

Threads == {1, 2}

AsList(s) == [kind |-> "list", list |-> s, set |-> {}]
AsSet(S) == [kind |-> "set", list |-> <<>>, set |-> S]

\* locals of a running generator: the argument, what is left to iterate, what
\* was yielded, the exception that ended it, and whether it iterates the very
\* object self._used_networks is still bound to; until the generator's
\* body starts, snap remembers the members the collection had when the caller
\* asked for the sequence
NoFrame == [p |-> 0, todo |-> <<>>, out |-> <<>>, err |-> "none", live |-> FALSE,
            snap |-> {}]

NoCall == [fn |-> "none"]

NoAccess == [thread |-> 0, kind |-> "none", what |-> "none", owner |-> 0]
Access(t, kind, what) == [thread |-> t, kind |-> kind, what |-> what, owner |-> lock]

Res(op, p, err, out) == [op |-> op, p |-> p, err |-> err, out |-> out]

\* argument lists of a construction and of a mutation
InitInputs == BoundedSeq(Networks, MaxInit)
MutInputs == BoundedSeq(Networks, MaxLen)
PrefixArgs == (0 - 1)..(IPV6LENGTH + 1)

Init ==
    /\ cls = 0
    /\ supernet = NoNetwork
    /\ _used_networks = AsList(<<>>)
    /\ _used_network_map = <<>>
    /\ result = Res("none", 0, "none", <<>>)
    /\ lock = 0
    /\ pc = [t \in Threads |-> "idle"]
    /\ frame = [t \in Threads |-> NoFrame]
    /\ access = NoAccess
    /\ call = NoCall

\* ----------------------------------------------------------------- actions
\* _BaseIPSet.__init__ as run by class c (IPv4Set: 4, IPv6Set: 6)
init_outcome(c, s, used) ==
    IF _normalize_network(c, FALSE, s) # "none" THEN _normalize_network(c, FALSE, s)
    ELSE normalize_all(c, used, 1)

Constructed(op, c, s, used) ==
    /\ cls = 0
    /\ IF init_outcome(c, s, used) = "none"
       THEN /\ cls' = c
            /\ supernet' = s
            /\ _used_networks' = AsList(used)
            /\ _used_network_map' = _update_networks(used)
       ELSE UNCHANGED <<cls, supernet, _used_networks, _used_network_map>>
    /\ result' = Res(op, 0, init_outcome(c, s, used), <<>>)
    /\ UNCHANGED convars

\* IPv4Set(supernet, used) / IPv6Set(supernet, used) called directly
__init__ ==
    /\ cls = 0
    /\ \E c \in Versions, s \in Networks, used \in InitInputs :
           Constructed("__init__", c, s, used)

\* ip_set(address, used): dispatches on the supernet's version
ip_set ==
    /\ cls = 0
    /\ \E s \in Networks, used \in InitInputs :
           Constructed("ip_set", s.version, s, used)

\* the used_networks setter called with new_networks
set_used(new_networks) ==
    /\ cls # 0
    /\ LET r == _init_used_networks(cls, new_networks)
       IN  /\ _used_networks' = IF r.err = "none" THEN AsSet(r.set) ELSE _used_networks
           /\ result' = Res("set_used", 0, r.err, <<>>)
    /\ UNCHANGED <<cls, supernet, _used_network_map>>
    /\ UNCHANGED convars

used_networks_setter == \E new_networks \in MutInputs : set_used(new_networks)

\* add_used_networks(input_networks): the attribute lookup of .update comes
\* first (a list has none), then the argument, then the in-place update, then
\* the call of self._update_free_networks, a method the class does not define.
add_used(input_networks) ==
    /\ cls # 0
    /\ IF _used_networks.kind = "list"
       THEN /\ result' = Res("add_used", 0, "AttributeError", <<>>)
            /\ UNCHANGED _used_networks
       ELSE LET r == _init_used_networks(cls, input_networks)
            IN  IF r.err # "none"
                THEN /\ result' = Res("add_used", 0, r.err, <<>>)
                     /\ UNCHANGED _used_networks
                ELSE /\ Cardinality(_used_networks.set \cup r.set) <= MaxUsed
                     /\ _used_networks' = AsSet(_used_networks.set \cup r.set)
                     /\ result' = Res("add_used", 0, "AttributeError", <<>>)
    /\ UNCHANGED <<cls, supernet, _used_network_map>>
    /\ UNCHANGED convars

add_used_networks == \E input_networks \in MutInputs : add_used(input_networks)

\* get_free_networks(prefixlen), consumed to its end by the caller
get_free_networks ==
    /\ cls # 0
    /\ \E prefixlen \in PrefixArgs :
           LET r == free_networks_of(supernet, _used_network_map, prefixlen)
           IN  result' = Res("free_networks", prefixlen, r.err, r.out)
    /\ UNCHANGED <<cls, supernet, _used_networks, _used_network_map>>
    /\ UNCHANGED convars

\* every order in which a set of networks can be iterated
Orders(S) == { s \in [1..Cardinality(S) -> S] : Range(s) = S }

\* the used_networks getter, consumed to its end: yield from the list or set
used_networks_getter ==
    /\ cls # 0
    /\ \E out \in (IF _used_networks.kind = "list" THEN {_used_networks.list}
                   ELSE Orders(_used_networks.set)) :
           result' = Res("used_networks", 0, "none", out)
    /\ UNCHANGED <<cls, supernet, _used_networks, _used_network_map>>
    /\ UNCHANGED convars

Next ==
    \/ __init__
    \/ ip_set
    \/ used_networks_setter
    \/ add_used_networks
    \/ get_free_networks
    \/ used_networks_getter

Spec == Init /\ [][Next]_vars

\* construction followed by queries only
NextQuery ==
    \/ __init__
    \/ ip_set
    \/ get_free_networks
    \/ used_networks_getter

SpecQuery == Init /\ [][NextQuery]_vars

\* ------------------------------------------------------ concurrent callers
\* Threads that share one constructed instance.  A mutation is three steps:
\* entering "with self.lock", the body, leaving the with block (also on an
\* exception).  A generator is created by the call and runs one step per
\* next(); neither generator takes the lock.

\* the supernets of the shared instance: the smaller family keeps the
\* interleavings of two threads enumerable
ConcSupernets == { n \in Networks : n.version = 4 }

\* the instance as ip_set leaves it, shared by the threads
InitConc ==
    /\ \E s \in ConcSupernets, used \in InitInputs :
          /\ init_outcome(s.version, s, used) = "none"
          /\ cls = s.version
          /\ supernet = s
          /\ _used_networks = AsList(used)
          /\ _used_network_map = _update_networks(used)
    /\ result = Res("ip_set", 0, "none", <<>>)
    /\ lock = 0
    /\ pc = [t \in Threads |-> "idle"]
    /\ frame = [t \in Threads |-> NoFrame]
    /\ access = NoAccess
    /\ call = NoCall

Shared == <<cls, supernet, result, call>>

\* "with self.lock:" of the setter: blocks while another thread owns the lock
SetEnter(t) ==
    /\ pc[t] = "idle" /\ lock = 0
    /\ lock' = t
    /\ pc' = [pc EXCEPT ![t] = "set_cs"]
    /\ UNCHANGED <<Shared, _used_networks, _used_network_map, frame, access>>

\* line 81: rebinding self._used_networks leaves the generators that iterate
\* the old object with that object
SetBody(t) ==
    /\ pc[t] = "set_cs"
    /\ \E new_networks \in MutInputs :
          LET r == _init_used_networks(cls, new_networks)
          IN  IF r.err = "none"
              THEN /\ _used_networks' = AsSet(r.set)
                   /\ access' = Access(t, "write", "collection")
                   /\ frame' = [u \in Threads |->
                                   IF u = t THEN [frame[u] EXCEPT !.err = "none"]
                                   ELSE [frame[u] EXCEPT !.live = FALSE]]
              ELSE /\ frame' = [frame EXCEPT ![t].err = r.err]
                   /\ UNCHANGED <<_used_networks, access>>
    /\ pc' = [pc EXCEPT ![t] = "set_exit"]
    /\ UNCHANGED <<Shared, _used_network_map, lock>>

SetExit(t) ==
    /\ pc[t] = "set_exit"
    /\ lock' = 0
    /\ pc' = [pc EXCEPT ![t] = "idle"]
    /\ frame' = [frame EXCEPT ![t] = NoFrame]
    /\ UNCHANGED <<Shared, _used_networks, _used_network_map, access>>

\* "with self.lock:" of add_used_networks
AddEnter(t) ==
    /\ pc[t] = "idle" /\ lock = 0
    /\ lock' = t
    /\ pc' = [pc EXCEPT ![t] = "add_cs"]
    /\ UNCHANGED <<Shared, _used_networks, _used_network_map, frame, access>>

\* lines 85-86: an update that grows the set breaks every generator that is
\* iterating that set ("Set changed size during iteration" at its next step)
AddBody(t) ==
    /\ pc[t] = "add_cs"
    /\ \E input_networks \in MutInputs :
          IF _used_networks.kind = "list"
          THEN /\ frame' = [frame EXCEPT ![t].err = "AttributeError"]
               /\ access' = Access(t, "read", "collection")
               /\ UNCHANGED _used_networks
          ELSE LET r == _init_used_networks(cls, input_networks)
                   grown == _used_networks.set \cup r.set
               IN  IF r.err # "none"
                   THEN /\ frame' = [frame EXCEPT ![t].err = r.err]
                        /\ access' = Access(t, "read", "collection")
                        /\ UNCHANGED _used_networks
                   ELSE /\ Cardinality(grown) <= MaxUsed
                        /\ _used_networks' = AsSet(grown)
                        /\ access' = Access(t, "write", "collection")
                        /\ frame' = [u \in Threads |->
                              IF u = t THEN [frame[u] EXCEPT !.err = "AttributeError"]
                              ELSE IF frame[u].live /\ grown # _used_networks.set
                                   THEN [frame[u] EXCEPT !.err = "RuntimeError"]
                                   ELSE frame[u]]
    /\ pc' = [pc EXCEPT ![t] = "add_exit"]
    /\ UNCHANGED <<Shared, _used_network_map, lock>>

AddExit(t) ==
    /\ pc[t] = "add_exit"
    /\ lock' = 0
    /\ pc' = [pc EXCEPT ![t] = "idle"]
    /\ frame' = [frame EXCEPT ![t] = NoFrame]
    /\ UNCHANGED <<Shared, _used_networks, _used_network_map, access>>

\* reading the used_networks property creates the generator; nothing runs yet
UsedCall(t) ==
    /\ pc[t] = "idle"
    /\ pc' = [pc EXCEPT ![t] = "used_gen"]
    /\ frame' = [frame EXCEPT ![t] = [NoFrame EXCEPT !.snap =
                        IF _used_networks.kind = "list"
                        THEN Range(_used_networks.list)
                        ELSE _used_networks.set]]
    /\ UNCHANGED <<Shared, _used_networks, _used_network_map, lock, access>>

\* the first next(): "yield from self._used_networks" takes an iterator of
\* the object bound at this moment and yields its first item
UsedFirst(t) ==
    /\ pc[t] = "used_gen"
    /\ \E items \in (IF _used_networks.kind = "list" THEN {_used_networks.list}
                     ELSE Orders(_used_networks.set)) :
          IF items = <<>>
          THEN /\ pc' = [pc EXCEPT ![t] = "idle"]
               /\ frame' = [frame EXCEPT ![t] = NoFrame]
          ELSE /\ pc' = [pc EXCEPT ![t] = "used_iter"]
               /\ frame' = [frame EXCEPT ![t] =
                     [NoFrame EXCEPT !.todo = Tail(items), !.out = <<Head(items)>>,
                                     !.live = TRUE]]
    /\ access' = Access(t, "read", "collection")
    /\ UNCHANGED <<Shared, _used_networks, _used_network_map, lock>>

\* a later next(): the next item of the iterated object, the end, or the
\* RuntimeError of a set that changed size
UsedNext(t) ==
    /\ pc[t] = "used_iter"
    /\ IF frame[t].err # "none" \/ frame[t].todo = <<>>
       THEN /\ pc' = [pc EXCEPT ![t] = "idle"]
            /\ frame' = [frame EXCEPT ![t] = NoFrame]
       ELSE /\ pc' = pc
            /\ frame' = [frame EXCEPT ![t].todo = Tail(frame[t].todo),
                                      ![t].out = Append(frame[t].out, Head(frame[t].todo))]
    /\ access' = Access(t, "read", "collection")
    /\ UNCHANGED <<Shared, _used_networks, _used_network_map, lock>>

\* get_free_networks(prefixlen) creates the generator; nothing runs yet
FreeCall(t) ==
    /\ pc[t] = "idle"
    /\ pc' = [pc EXCEPT ![t] = "free_gen"]
    /\ UNCHANGED <<Shared, _used_networks, _used_network_map, lock, frame, access>>

\* one next() of get_free_networks: candidates are tested against the keys of
\* self._used_network_map, read anew for every candidate, until one is
\* yielded, ip_network raises, or none is left
RECURSIVE free_step(_, _, _)
free_step(todo, keys, prefixlen) ==
    IF todo = <<>> THEN [st |-> "stop", net |-> NoNetwork, todo |-> <<>>]
    ELSE IF overlap(Head(todo), keys).hit THEN free_step(Tail(todo), keys, prefixlen)
    ELSE LET r == ip_network(Head(todo)[1], prefixlen)
         IN  IF r.err # "none" THEN [st |-> r.err, net |-> NoNetwork, todo |-> <<>>]
             ELSE [st |-> "yield", net |-> r.net, todo |-> Tail(todo)]

FreeAdvance(t, prefixlen, todo, out) ==
    LET s == free_step(todo, Keys(_used_network_map), prefixlen)
    IN  /\ IF s.st = "yield"
           THEN /\ pc' = [pc EXCEPT ![t] = "free_iter"]
                /\ frame' = [frame EXCEPT ![t] =
                      [NoFrame EXCEPT !.p = prefixlen, !.todo = s.todo,
                                      !.out = Append(out, s.net)]]
           ELSE /\ pc' = [pc EXCEPT ![t] = "idle"]
                /\ frame' = [frame EXCEPT ![t] = NoFrame]
        /\ access' = IF todo = <<>> THEN access ELSE Access(t, "read", "index")

\* the first next(): net_size_iterator builds the range, then the first block
FreeFirst(t) ==
    /\ pc[t] = "free_gen"
    /\ \E prefixlen \in PrefixArgs :
          LET it == net_size_iterator(supernet, prefixlen)
          IN  IF it.err # "none"
              THEN /\ pc' = [pc EXCEPT ![t] = "idle"]
                   /\ frame' = [frame EXCEPT ![t] = NoFrame]
                   /\ UNCHANGED access
              ELSE FreeAdvance(t, prefixlen, it.items, <<>>)
    /\ UNCHANGED <<Shared, _used_networks, _used_network_map, lock>>

\* a later next()
FreeNext(t) ==
    /\ pc[t] = "free_iter"
    /\ FreeAdvance(t, frame[t].p, frame[t].todo, frame[t].out)
    /\ UNCHANGED <<Shared, _used_networks, _used_network_map, lock>>

NextConc ==
    \E t \in Threads :
        \/ SetEnter(t)
        \/ SetBody(t)
        \/ SetExit(t)
        \/ AddEnter(t)
        \/ AddBody(t)
        \/ AddExit(t)
        \/ UsedCall(t)
        \/ UsedFirst(t)
        \/ UsedNext(t)
        \/ FreeCall(t)
        \/ FreeFirst(t)
        \/ FreeNext(t)

SpecConc == InitConc /\ [][NextConc]_vars

TypeOK ==
    /\ cls \in {0} \cup Versions
    /\ supernet \in Networks \cup {NoNetwork}
    /\ _used_networks.kind \in {"list", "set"}
    /\ lock \in {0} \cup Threads

\* ------------------------------------------ the module's functions on their own
\* well-formed (first, last) intervals, as the keys of the overlap index are
Intervals == { x \in (0..MaxAddr) \X (0..MaxAddr) : x[1] <= x[2] }

\* overlap(a, b) about to be called with an interval and a list of intervals
OverlapCalls ==
    { [fn |-> "overlap", a |-> a, b |-> b, done |-> FALSE,
       value |-> [hit |-> FALSE, x |-> <<0, 0>>]] :
         a \in Intervals, b \in BoundedSeq(Intervals, MaxIntervals) }

\* net_size_iterator(start, cidr) about to be drained as get_free_networks
\* drains it with no used network: every item goes to ipaddress.ip_network
IteratorCalls ==
    { [fn |-> "net_size_iterator", start |-> s, cidr |-> c, done |-> FALSE,
       value |-> [err |-> "none", items |-> <<>>], nets |-> <<>>] :
         s \in Networks, c \in PrefixArgs }

InitPure ==
    /\ cls = 0
    /\ supernet = NoNetwork
    /\ _used_networks = AsList(<<>>)
    /\ _used_network_map = <<>>
    /\ result = Res("none", 0, "none", <<>>)
    /\ lock = 0
    /\ pc = [t \in Threads |-> "idle"]
    /\ frame = [t \in Threads |-> NoFrame]
    /\ access = NoAccess
    /\ call \in OverlapCalls \cup IteratorCalls

\* the call of overlap(a, b)
overlap_call ==
    /\ call.fn = "overlap" /\ ~call.done
    /\ call' = [call EXCEPT !.done = TRUE, !.value = overlap(call.a, call.b)]
    /\ UNCHANGED <<cls, supernet, _used_networks, _used_network_map, result,
                   lock, pc, frame, access>>

\* the call of net_size_iterator(start, cidr) and, as line 97 does for the
\* items that pass, ipaddress.ip_network((n[0], prefixlen)) for each item
net_size_iterator_call ==
    /\ call.fn = "net_size_iterator" /\ ~call.done
    /\ LET it == net_size_iterator(call.start, call.cidr)
       IN  call' = [call EXCEPT !.done = TRUE, !.value = it,
                                !.nets = [k \in 1..Len(it.items) |->
                                             ip_network(it.items[k][1], call.cidr)]]
    /\ UNCHANGED <<cls, supernet, _used_networks, _used_network_map, result,
                   lock, pc, frame, access>>

NextPure ==
    \/ overlap_call
    \/ net_size_iterator_call

SpecPure == InitPure /\ [][NextPure]_vars

\* ip_set(s, used).get_free_networks(prefixlen), drained
free_of_construction(s, used, prefixlen) ==
    IF init_outcome(s.version, s, used) # "none"
    THEN [err |-> init_outcome(s.version, s, used), out |-> <<>>]
    ELSE free_networks_of(s, _update_networks(used), prefixlen)

\* two constructions on one supernet, the second with a list drawn from the
\* networks of the first in any order, with or without repeats
InitPair ==
    /\ cls = 0
    /\ supernet = NoNetwork
    /\ _used_networks = AsList(<<>>)
    /\ _used_network_map = <<>>
    /\ result = Res("none", 0, "none", <<>>)
    /\ lock = 0
    /\ pc = [t \in Threads |-> "idle"]
    /\ frame = [t \in Threads |-> NoFrame]
    /\ access = NoAccess
    /\ \E s \in Networks, prefixlen \in PrefixArgs, used \in InitInputs :
          \E fewer \in BoundedSeq(Range(used), MaxInit) :
              call = [fn |-> "get_free_networks", supernet |-> s, p |-> prefixlen,
                      used |-> used, fewer |-> fewer, done |-> FALSE,
                      with_used |-> [err |-> "none", out |-> <<>>],
                      with_fewer |-> [err |-> "none", out |-> <<>>]]

\* both instances are constructed and queried
free_pair_call ==
    /\ call.fn = "get_free_networks" /\ ~call.done
    /\ call' = [call EXCEPT
                  !.done = TRUE,
                  !.with_used = free_of_construction(call.supernet, call.used, call.p),
                  !.with_fewer = free_of_construction(call.supernet, call.fewer, call.p)]
    /\ UNCHANGED <<cls, supernet, _used_networks, _used_network_map, result,
                   lock, pc, frame, access>>

NextPair ==
    \/ free_pair_call

SpecPair == InitPair /\ [][NextPair]_vars

\* ------------------------------------------------------ vocabulary of claims
\* the specified overlap test: not (c1 < u0 or c0 > u1)
IntervalsOverlap(c, u) == ~(c[2] < u[1] \/ c[1] > u[2])

\* the networks currently in the used-network collection
UsedNow == IF _used_networks.kind = "list" THEN Range(_used_networks.list)
           ELSE _used_networks.set

\* the intervals the overlap index holds
IndexIntervals == { _used_network_map[j].key : j \in 1..Len(_used_network_map) }

ValidPrefix(p) == supernet.prefixlen <= p /\ p <= MaxPrefixLen(supernet.version)

\* the candidates of size p that tile the supernet, S, S+size, ... up to E
Candidates(sn, p) ==
    [k \in 1..Pow2(p - sn.prefixlen) |->
        Net(sn.version, First(sn) + (k - 1) * Pow2(MaxPrefixLen(sn.version) - p), p)]

\* the candidates that overlap no network of U, in ascending order
ExpectedFree(sn, U, p) ==
    LET Free(b) == \A u \in U : ~IntervalsOverlap(Interval(b), Interval(u))
    IN  SelectSeq(Candidates(sn, p), Free)

\* a sequence without one of its elements
Without(s, b) == LET Keep(x) == x # b IN SelectSeq(s, Keep)

\* u and sn share no address
Disjoint(u, sn) == ~IntervalsOverlap(Interval(u), Interval(sn))

\* u holds every address of sn and more
StrictlyContains(u, sn) ==
    First(u) <= First(sn) /\ Last(sn) <= Last(u) /\ u.prefixlen < sn.prefixlen

\* what free_networks(result.p) gives for the instance constructed without u
FreeWithout(u) ==
    free_networks_of(supernet, _update_networks(Without(_used_networks.list, u)),
                     result.p)

\* the last query returned what the instance constructed without u returns
SameResultWithout(u) ==
    LET r == FreeWithout(u) IN r.err = result.err /\ r.out = result.out

\* address a lies in block b
Holds(b, a) == First(b) <= a /\ a <= Last(b)

\* every address of block b lies in some network of U
FullyCovered(b, U) == \A a \in First(b)..Last(b) : \E u \in U : Holds(u, a)

\* how many of the yielded blocks and of the fully covered candidates hold a
BlocksHolding(a) ==
    LET cands == Candidates(supernet, result.p)
    IN  Cardinality({ i \in 1..Len(result.out) : Holds(result.out[i], a) })
        + Cardinality({ k \in 1..Len(cands) :
                          FullyCovered(cands[k], UsedNow) /\ Holds(cands[k], a) })

\* Python's truth value of what overlap returns: False is false, a returned
\* tuple is true unless it is empty
Truthy(o) == o.hit /\ Len(o.x) > 0

\* ------------------------------------------------------------------ claims
\* C1: every block yielded by free_networks(p) overlaps the interval of no
\* network of the current used-network collection.
C1_FreeAvoidsCurrentUsed ==
    result.op = "free_networks" =>
        \A i \in 1..Len(result.out) : \A u \in UsedNow :
            ~IntervalsOverlap(Interval(result.out[i]), Interval(u))

\* C2: for a used set given at construction and a valid p, free_networks(p)
\* yields exactly the candidates S, S+size, ... up to E that overlap no used
\* interval, the last candidate included.
C2_ExactlyTheFreeCandidates ==
    (result.op = "free_networks" /\ _used_networks.kind = "list" /\ ValidPrefix(result.p)) =>
        result.out = ExpectedFree(supernet, UsedNow, result.p)

\* C3: after set_used(N) returns, the collection is N, the index holds exactly
\* the intervals of N, and free_networks(p) is computed against N only.
C3_SetUsedRebuildsIndex ==
    (result.op = "set_used" /\ result.err = "none") =>
        /\ _used_networks.kind = "set"
        /\ IndexIntervals = { Interval(n) : n \in UsedNow }
        /\ \A p \in { q \in PrefixArgs : ValidPrefix(q) } :
              \A b \in Range(free_networks_of(supernet, _used_network_map, p).out) :
                  \A u \in UsedNow : ~IntervalsOverlap(Interval(b), Interval(u))

\* C4: if b is in the result of free_networks(p), add_used([b]) completes
\* successfully and free_networks(p) then yields the previous result minus b.
C4_AddUsedRemovesExactlyThatBlock ==
    [][ \A i \in 1..Len(result.out) :
            (result.op = "free_networks" /\ result.err = "none" /\ add_used(<<result.out[i]>>))
                => /\ result'.err = "none"
                   /\ free_networks_of(supernet', _used_network_map', result.p).out
                        = Without(result.out, result.out[i]) ]_vars

\* C5: a set_used or add_used call either returns normally with all supplied
\* networks absorbed, or fails with the used-network collection and the
\* overlap index as before; none both raises an error and changes them.
C5_NoPartialSuccess ==
    [][ /\ (result'.op \in {"set_used", "add_used"} /\ result'.err # "none") =>
               UNCHANGED <<_used_networks, _used_network_map>>
        /\ \A nets \in MutInputs :
               (cls # 0 /\ (set_used(nets) \/ add_used(nets)) /\ result'.err = "none") =>
                   (_used_networks'.kind = "set" /\ Range(nets) \subseteq _used_networks'.set) ]_vars

\* C6: a network of another family than the supernet's fails with the
\* version-mismatch error at construction (directly or through ip_set), leaving
\* nothing constructed, and in set_used and add_used, leaving the collection
\* unchanged.
HasForeign(nets, v) == \E i \in 1..Len(nets) : nets[i].version # v

\* the constructions and the mutations that supply a foreign network
ForeignInits == { su \in Networks \X InitInputs : HasForeign(su[2], su[1].version) }
ForeignMuts(v) == { nets \in MutInputs : HasForeign(nets, v) }

C6_VersionMismatchEverywhere ==
    [][ /\ \A op \in {"__init__", "ip_set"} :
             (cls = 0 /\ result'.op = op) =>
                 \A su \in ForeignInits :
                     Constructed(op, su[1].version, su[1], su[2])
                         => (result'.err = "VersionMismatch" /\ cls' = 0)
        /\ \A nets \in ForeignMuts(cls) :
             (cls # 0 /\ (set_used(nets) \/ add_used(nets)))
                 => (result'.err = "VersionMismatch" /\ UNCHANGED _used_networks) ]_vars

\* C7: free_networks(p) with p below the supernet's prefix length or above the
\* family maximum fails with an error and yields no block.
C7_InvalidPrefixRejected ==
    (result.op = "free_networks" /\ ~ValidPrefix(result.p)) =>
        (result.err # "none" /\ result.out = <<>>)

\* C8: with an empty used set, free_networks(supernet.prefixlen) returns
\* exactly one block, the supernet, for every supernet, single-address ones
\* included.
C8_WholeSupernetWhenEmpty ==
    (/\ result.op = "free_networks"
     /\ result.p = supernet.prefixlen
     /\ UsedNow = {}
     /\ _used_network_map = <<>>) =>
        result.out = <<supernet>>

\* C9: for a valid p the yielded sequence is strictly ascending by base
\* address, every block has prefix length p and lies inside the supernet (a
\* network of the supernet's family within [S, E]), and no two blocks are equal
\* or overlap.
C9_AscendingDisjointSubBlocks ==
    (result.op = "free_networks" /\ ValidPrefix(result.p)) =>
        /\ \A i \in 1..Len(result.out) :
              /\ result.out[i].prefixlen = result.p
              /\ result.out[i].version = supernet.version
              /\ First(supernet) <= First(result.out[i])
              /\ Last(result.out[i]) <= Last(supernet)
        /\ \A i, j \in 1..Len(result.out) : i < j =>
              /\ First(result.out[i]) < First(result.out[j])
              /\ ~IntervalsOverlap(Interval(result.out[i]), Interval(result.out[j]))

\* C10: every read and every write of the used-network collection and of the
\* overlap index happens while the accessing thread holds the instance's lock;
\* in particular no generator reads them while another thread is inside the
\* critical section of set_used or add_used.
C10_AccessOnlyUnderLock ==
    /\ access.kind # "none" => access.owner = access.thread
    /\ access.kind = "read" => access.owner \in {0, access.thread}

\* C11: a lazy sequence returned by used_networks() or free_networks(p) works on
\* a snapshot taken when it was requested: whatever set_used and add_used do in
\* other threads meanwhile, the items it yields are the members the collection
\* had at the request, and its iteration ends without an exception raised by a
\* collection that changed under it.
C11_SequenceIsRequestTimeSnapshot ==
    [][\A t \in Threads :
          /\ (pc[t] = "used_gen" /\ pc'[t] = "used_iter") =>
                 Range(frame'[t].out \o frame'[t].todo) = frame[t].snap
          /\ (pc[t] = "used_gen" /\ pc'[t] = "idle") => frame[t].snap = {}
          /\ (pc[t] = "used_iter" /\ pc'[t] = "idle") => frame[t].err = "none"]_vars

\* C12 as stated: a used network that is no sub-block of the supernet, be it
\* disjoint from the supernet or strictly containing it, never affects the
\* result of free_networks(p) for a valid p.
C12_OutsideUsedHasNoEffect ==
    (result.op = "free_networks" /\ _used_networks.kind = "list" /\ ValidPrefix(result.p)) =>
        \A u \in UsedNow :
            (u.version = supernet.version
                /\ (Disjoint(u, supernet) \/ StrictlyContains(u, supernet)))
            => SameResultWithout(u)

\* C12 amended: a used network of the supernet's family that is disjoint from
\* the supernet never affects the result of free_networks(p) for a valid p:
\* the instance constructed with it and the one constructed without it return
\* the same blocks.
C12_DisjointUsedHasNoEffect ==
    (result.op = "free_networks" /\ _used_networks.kind = "list" /\ ValidPrefix(result.p)) =>
        \A u \in UsedNow :
            (u.version = supernet.version /\ Disjoint(u, supernet))
            => SameResultWithout(u)

\* a query that returned blocks although a used network outside the supernet
\* and one inside it were given at construction
C12_Witness ==
    /\ result.op = "free_networks" /\ _used_networks.kind = "list"
    /\ ValidPrefix(result.p) /\ result.err = "none" /\ result.out # <<>>
    /\ \E u \in UsedNow : u.version = supernet.version /\ Disjoint(u, supernet)
    /\ \E w \in UsedNow : ~Disjoint(w, supernet)

\* C13: for a used set given at construction and a valid p, the blocks yielded
\* by free_networks(p) together with the candidates of size p that the used
\* networks fully cover tile the supernet exactly once: every address of the
\* supernet lies in exactly one of those blocks.
C13_FreeAndCoveredTileSupernet ==
    (result.op = "free_networks" /\ _used_networks.kind = "list" /\ ValidPrefix(result.p)) =>
        /\ result.err = "none"
        /\ \A a \in First(supernet)..Last(supernet) : BlocksHolding(a) = 1

\* C14: the used-network collection is deduplicated in every reachable state:
\* after construction, set_used or add_used with repeated input,
\* used_networks() yields each distinct network of the collection exactly once.
C14_UsedYieldedOnce ==
    result.op = "used_networks" =>
        /\ Range(result.out) = UsedNow
        /\ \A i, j \in 1..Len(result.out) : i < j => result.out[i] # result.out[j]

\* C15: in every state reached by construction and any sequence of successful
\* or failed set_used and add_used calls, every member of the used-network
\* collection has the supernet's family, and the supernet is the one fixed at
\* construction.
C15_FamilyAndSupernetKept ==
    [][/\ cls # 0 => (supernet' = supernet /\ cls' = cls)
       /\ cls' # 0 =>
             /\ supernet'.version = cls'
             /\ \A u \in (IF _used_networks'.kind = "list"
                           THEN Range(_used_networks'.list)
                           ELSE _used_networks'.set) :
                    u.version = supernet'.version]_vars

\* a set_used call refused for a version mismatch on an instance whose
\* collection an earlier set_used had filled
C15_Witness ==
    /\ result.op = "set_used" /\ result.err = "VersionMismatch"
    /\ _used_networks.kind = "set" /\ UsedNow # {}

\* C16: when the used set given at construction contains a strict sub-block of
\* the supernet, free_networks(supernet.prefix_length) yields nothing: the one
\* candidate, the supernet itself, overlaps that sub-block.
C16_SupernetNotFreeWhenPartlyUsed ==
    (/\ result.op = "free_networks" /\ _used_networks.kind = "list"
     /\ result.p = supernet.prefixlen
     /\ \E u \in UsedNow : StrictlyContains(supernet, u))
    => (result.err = "none" /\ result.out = <<>>)

\* such a query on a supernet whose used sub-block touches neither end of it
C16_Witness ==
    /\ result.op = "free_networks" /\ _used_networks.kind = "list"
    /\ result.p = supernet.prefixlen /\ result.out = <<>>
    /\ \E u \in UsedNow :
          /\ StrictlyContains(supernet, u)
          /\ First(supernet) < First(u) /\ Last(u) < Last(supernet)

\* C17: for well-formed intervals, overlap(a, b) reports an overlap exactly
\* when some [u0, u1] of b satisfies not (a1 < u0 or a0 > u1): partial overlap
\* and containment either way count, an interval entirely before or after a
\* does not; what it returns is one of b's overlapping intervals and is truthy
\* even when that interval is (0, 0).
C17_OverlapIffIntervalsMeet ==
    (call.fn = "overlap" /\ call.done) =>
        /\ Truthy(call.value) <=>
              \E i \in 1..Len(call.b) : IntervalsOverlap(call.a, call.b[i])
        /\ call.value.hit =>
              \E i \in 1..Len(call.b) :
                  call.value.x = call.b[i] /\ IntervalsOverlap(call.a, call.b[i])

\* overlap called with a = (0, 0) and a list whose first interval lies after
\* a and whose second is (0, 0)
C17_Witness ==
    /\ call.fn = "overlap" /\ call.done
    /\ call.a = <<0, 0>> /\ Len(call.b) = 2
    /\ ~IntervalsOverlap(call.a, call.b[1])
    /\ call.b[2] = <<0, 0>>
    /\ call.value.x = <<0, 0>> /\ Truthy(call.value)

\* C18: for a valid p, every candidate net_size_iterator produces starts at a
\* multiple of the block size 2^(max - p), at S + k * size, and ends no later
\* than the supernet's last address, so ipaddress.ip_network((start, p)) finds
\* no host bits set and get_free_networks never fails part-way.
C18_CandidatesAlignedAndInside ==
    (/\ call.fn = "net_size_iterator" /\ call.done
     /\ call.start.prefixlen <= call.cidr
     /\ call.cidr <= MaxPrefixLen(call.start.version))
    => LET size == Pow2(MaxPrefixLen(call.start.version) - call.cidr)
           items == call.value.items
       IN  /\ call.value.err = "none"
           /\ \A k \in 1..Len(items) :
                 /\ items[k][1] = First(call.start) + (k - 1) * size
                 /\ items[k][1] % size = 0
                 /\ items[k][2] = items[k][1] + size - 1
                 /\ items[k][2] <= Last(call.start)
                 /\ call.nets[k].err = "none"
                 /\ First(call.nets[k].net) = items[k][1]
                 /\ call.nets[k].net.prefixlen = call.cidr

\* a supernet split into more than one candidate of more than one address
C18_Witness ==
    /\ call.fn = "net_size_iterator" /\ call.done
    /\ call.start.prefixlen < call.cidr
    /\ call.cidr < MaxPrefixLen(call.start.version)
    /\ Len(call.value.items) > 1 /\ Len(call.nets) > 1
    /\ call.nets[2].err = "none" /\ First(call.nets[2].net) > 0

\* C19: the result of free_networks(p) shrinks when the used set grows and
\* does not depend on the order or the repeats of the construction list: for
\* one supernet and a valid p, with U a subset of U', every block free under
\* U' is free under U, and two constructions with the same set of used
\* networks yield the same sequence.
C19_AntitoneAndOrderFree ==
    (/\ call.fn = "get_free_networks" /\ call.done
     /\ call.supernet.prefixlen <= call.p
     /\ call.p <= MaxPrefixLen(call.supernet.version)
     /\ init_outcome(call.supernet.version, call.supernet, call.used) = "none")
    => /\ Range(call.fewer) \subseteq Range(call.used) =>
             Range(call.with_used.out) \subseteq Range(call.with_fewer.out)
       /\ Range(call.fewer) = Range(call.used) =>
             call.with_fewer = call.with_used

\* a construction with two used networks and one with only the first of
\* them, the second of which frees a block more
C19_Witness ==
    /\ call.fn = "get_free_networks" /\ call.done
    /\ Len(call.used) = 2 /\ call.used[1] # call.used[2]
    /\ call.fewer = <<call.used[1]>>
    /\ call.with_used.err = "none" /\ call.with_used.out # <<>>
    /\ Len(call.with_fewer.out) > Len(call.with_used.out)

====
